---------------------------- MODULE Spec2Model ----------------------------
(***************************************************************************)
(* A model of deepchem/models/deep.py: the Keras persistence adapter       *)
(* (KerasModel.save / KerasModel.load), the multi-task wrapper             *)
(* (MultiTaskDNN) and the free function to_one_hot.                        *)
(*                                                                         *)
(* Conventions.                                                            *)
(*  - A Python string is a sequence of pieces (characters or literal       *)
(*    chunks): "task%d" % 3 is <<"task", "3">>, the path "d/model.pkl.gz"  *)
(*    is a sequence of characters.                                         *)
(*  - A numpy array is a record [shape, data] with data in row-major       *)
(*    order; Python indices are 0-based and are shifted by one on access.  *)
(*  - Sample weights are fixed-point numbers counted in thousandths, so    *)
(*    that eps = .001 is the integer 1.                                    *)
(*  - str and bytes are distinct types (Python 3): a file opened in mode   *)
(*    "wb" refuses a str.                                                  *)
(*  - The Keras engine is outside the repository.  It is represented by a  *)
(*    small deterministic stand-in (a graph record, one scalar parameter   *)
(*    value, a forward pass) and by nondeterministic choices where the     *)
(*    adapter cannot know its result (the loss and the updated parameters  *)
(*    of one training step).                                               *)
(***************************************************************************)
EXTENDS Integers, Sequences, FiniteSets, TLC

VARIABLES
  task_types,   \* the Task Specification handed to the constructors
  constructed,  \* constructed[i]: instance i has run __init__
  raw_model,    \* raw_model[i]: self.raw_model of instance i (None or a model)
  fs,           \* the file system: path -> content, for the paths that exist
  call          \* the call that has returned: operation, receiver, arguments, outcome

vars == <<task_types, constructed, raw_model, fs, call>>

-----------------------------------------------------------------------------
(* Bounds of the model. *)

MaxTasks == 2      \* a Task Specification has 1 .. MaxTasks tasks
MaxSamples == 2    \* a batch has 1 .. MaxSamples samples

(* Program constants. *)

EpsMilli == 1      \* eps = .001, in thousandths

None == [none |-> TRUE]

-----------------------------------------------------------------------------
(* Python builtins. *)

Ord(c) ==
  CASE c = "a" -> 97
    [] c = "b" -> 98
    [] c = "c" -> 99

\* a < b for two strings: code points compared left to right, a proper
\* prefix before the longer string.
RECURSIVE StrLess(_, _)
StrLess(a, b) ==
  IF b = <<>> THEN FALSE
  ELSE IF a = <<>> THEN TRUE
  ELSE IF Ord(Head(a)) < Ord(Head(b)) THEN TRUE
  ELSE IF Ord(Head(a)) > Ord(Head(b)) THEN FALSE
  ELSE StrLess(Tail(a), Tail(b))

\* a mutation of the string order: shorter strings first
StrLessByLength(a, b) ==
  Len(a) < Len(b) \/ (Len(a) = Len(b) /\ StrLess(a, b))

Less(a, b) == StrLess(a, b)

Smallest(S) == CHOOSE a \in S : \A b \in S \ {a} : Less(a, b)

\* sorted(d.keys()): the keys in ascending order, as a list
RECURSIVE sorted(_)
sorted(S) ==
  IF S = {} THEN <<>>
  ELSE LET m == Smallest(S) IN <<m>> \o sorted(S \ {m})

Digit(d) ==
  CASE d = 0 -> "0" [] d = 1 -> "1" [] d = 2 -> "2" [] d = 3 -> "3"
    [] d = 4 -> "4" [] d = 5 -> "5" [] d = 6 -> "6" [] d = 7 -> "7"
    [] d = 8 -> "8" [] d = 9 -> "9"

\* "%d" % n for n >= 0: the decimal digits of n
RECURSIVE FormatD(_)
FormatD(n) ==
  IF n < 10 THEN <<Digit(n)>> ELSE FormatD(n \div 10) \o <<Digit(n % 10)>>

\* "task%d" % ind and "dense_head%d" % ind
TaskName(ind) == <<"task">> \o FormatD(ind)
HeadName(ind) == <<"dense_head">> \o FormatD(ind)
InputName == <<"input">>

\* a dict with no entries, and d[k] = v
EmptyDict == [k \in {} |-> 0]
DictSet(d, k, v) == [x \in DOMAIN d \cup {k} |-> IF x = k THEN v ELSE d[x]]

-----------------------------------------------------------------------------
(* numpy. *)

RECURSIVE Prod(_)
Prod(s) == IF s = <<>> THEN 1 ELSE Head(s) * Prod(Tail(s))

\* np.zeros(shape)
Zeros(shape) == [shape |-> shape, data |-> [k \in 1 .. Prod(shape) |-> 0]]

\* a matrix from its rows (all of length cols)
Matrix(rows, cols) ==
  [shape |-> <<Len(rows), cols>>,
   data  |-> [k \in 1 .. Len(rows) * cols |->
                rows[((k - 1) \div cols) + 1][((k - 1) % cols) + 1]]]

\* a[r, c] of a 2-D array
At2(a, r, c) == a.data[r * a.shape[2] + c + 1]

\* a[:, ind] of a 2-D array: a 1-D array
Column(a, ind) ==
  [shape |-> <<a.shape[1]>>,
   data  |-> [r \in 1 .. a.shape[1] |-> At2(a, r - 1, ind)]]

\* a[:, ind] = v for a 2-D array a and v of shape () or (n,): v is broadcast
SetColumn(a, ind, v) ==
  [shape |-> a.shape,
   data  |-> [k \in 1 .. Len(a.data) |->
                IF (k - 1) % a.shape[2] = ind
                THEN IF v.shape = <<>> THEN v.data[1]
                     ELSE v.data[((k - 1) \div a.shape[2]) + 1]
                ELSE a.data[k]]]

\* a[index] = row for a 2-D array a and a row of a.shape[2] values
SetRow(a, index, row) ==
  [shape |-> a.shape,
   data  |-> [k \in 1 .. Len(a.data) |->
                IF (k - 1) \div a.shape[2] = index
                THEN row[((k - 1) % a.shape[2]) + 1]
                ELSE a.data[k]]]

\* np.squeeze(a): every axis of length one is removed
Squeeze(a) ==
  [shape |-> SelectSeq(a.shape, LAMBDA d : d # 1), data |-> a.data]

\* a mutation of argmax: on a tie the last index of the maximum
ArgmaxRowLast(a, r) ==
  CHOOSE c \in 0 .. a.shape[2] - 1 :
    /\ \A d \in 0 .. a.shape[2] - 1 : At2(a, r, d) <= At2(a, r, c)
    /\ \A d \in c + 1 .. a.shape[2] - 1 : At2(a, r, d) < At2(a, r, c)

\* np.argmax(a, axis=1) of a 2-D array: per row, the first index of the maximum
ArgmaxRow(a, r) ==
  CHOOSE c \in 0 .. a.shape[2] - 1 :
    /\ \A d \in 0 .. a.shape[2] - 1 : At2(a, r, d) <= At2(a, r, c)
    /\ \A d \in 0 .. c - 1 : At2(a, r, d) < At2(a, r, c)

Argmax1(a) ==
  [shape |-> <<a.shape[1]>>,
   data  |-> [r \in 1 .. a.shape[1] |-> ArgmaxRow(a, r - 1)]]

\* a + s * np.ones(np.shape(a))
AddScaledOnes(a, s) ==
  [shape |-> a.shape, data |-> [k \in 1 .. Len(a.data) |-> a.data[k] + s * 1]]

-----------------------------------------------------------------------------
(* to_one_hot (deep.py, 174-189). *)

RECURSIVE OneHotLoop(_, _, _)
OneHotLoop(y, y_hot, index) ==
  IF index >= y.shape[1] THEN y_hot
  ELSE LET val == y.data[index + 1]
           next == IF val = 0 THEN SetRow(y_hot, index, <<1, 0>>)
                   ELSE IF val = 1 THEN SetRow(y_hot, index, <<0, 1>>)
                   ELSE y_hot
       IN OneHotLoop(y, next, index + 1)

\* a mutation of to_one_hot: every label but 0 counts as class 1
to_one_hotElse(y) ==
  Matrix([r \in 1 .. y.shape[1] |->
            IF y.data[r] = 0 THEN <<1, 0>> ELSE <<0, 1>>], 2)

to_one_hot(y) ==
  LET n_samples == y.shape[1]
      y_hot == Zeros(<<n_samples, 2>>)
  IN OneHotLoop(y, y_hot, 0)

-----------------------------------------------------------------------------
(* The Keras engine, as far as the adapter uses it (deep.py, 10-13).        *)
(* A raw model is a graph description plus its parameters; the parameters   *)
(* are represented by one scalar value together with the shapes of the      *)
(* weight matrices, which the graph determines.                             *)

ParamVals == {-1, 0, 1}     \* the values the parameters of a model range over
InitParam == 0              \* the parameters of a newly compiled model
LossVals == {0, 7}          \* the losses the engine may report

\* Dense(output_dim, init=..., activation=...) and Dropout(p)
Dense(output_dim, init, activation) ==
  [type |-> "Dense", output_dim |-> output_dim, init |-> init,
   activation |-> activation, p |-> 0]
Dropout(p) ==
  [type |-> "Dropout", output_dim |-> 0, init |-> "", activation |-> "", p |-> p]

\* Graph(), add_input, add_node, add_output, compile
Graph ==
  [inputs |-> <<>>, nodes |-> <<>>, outputs |-> <<>>,
   loss |-> EmptyDict, optimizer |-> None]
add_input(g, name, dim) ==
  [g EXCEPT !.inputs = Append(@, [name |-> name, dim |-> dim])]
add_node(g, layer, name, input) ==
  [g EXCEPT !.nodes = Append(@, [name |-> name, layer |-> layer, input |-> input])]
add_output(g, name, input) ==
  [g EXCEPT !.outputs = Append(@, [name |-> name, input |-> input])]
SGD(lr, decay, momentum, nesterov) ==
  [name |-> "SGD", lr |-> lr, decay |-> decay, momentum |-> momentum,
   nesterov |-> nesterov]

\* the shapes of the weight matrices of a graph: one per Dense node,
\* <<width of its input, output_dim>>
NodeWidth(g, name) ==
  IF \E k \in 1 .. Len(g.inputs) : g.inputs[k].name = name
  THEN g.inputs[CHOOSE k \in 1 .. Len(g.inputs) : g.inputs[k].name = name].dim
  ELSE LET RECURSIVE W(_)
           W(k) ==
             IF k = 0 THEN 0
             ELSE IF g.nodes[k].name = name
             THEN IF g.nodes[k].layer.type = "Dense"
                  THEN g.nodes[k].layer.output_dim
                  ELSE IF \E j \in 1 .. k - 1 : g.nodes[j].name = g.nodes[k].input
                       THEN g.nodes[CHOOSE j \in 1 .. k - 1 :
                                      g.nodes[j].name = g.nodes[k].input].layer.output_dim
                       ELSE 0
             ELSE W(k - 1)
       IN W(Len(g.nodes))

ParamShapes(g) ==
  LET dense == SelectSeq(g.nodes, LAMBDA nd : nd.layer.type = "Dense")
  IN [k \in 1 .. Len(dense) |->
        <<NodeWidth(g, dense[k].input), dense[k].layer.output_dim>>]

\* model.compile(optimizer=..., loss=...): the graph becomes a model with
\* newly initialised parameters
compile(g, optimizer, loss) ==
  [graph |-> [g EXCEPT !.optimizer = optimizer, !.loss = loss],
   value |-> InitParam]

\* model.to_json(): the architecture as text.  The loss dict is written as a
\* list of [name, loss] pairs in the order of the outputs.
to_json(model) ==
  LET g == model.graph
  IN [name |-> "Graph",
      input_config |-> g.inputs,
      node_config |-> g.nodes,
      output_config |-> g.outputs,
      loss |-> [k \in 1 .. Len(g.outputs) |->
                  <<g.outputs[k].name, g.loss[g.outputs[k].name]>>],
      optimizer |-> g.optimizer]

\* whether a text is the description of a graph
IsArchitecture(text) ==
  /\ DOMAIN text = {"name", "input_config", "node_config", "output_config",
                    "loss", "optimizer"}
  /\ text.name = "Graph"

\* model_from_json(text): the graph is rebuilt and compiled, its parameters
\* newly initialised
RECURSIVE LossFromPairs(_, _)
LossFromPairs(pairs, d) ==
  IF pairs = <<>> THEN d
  ELSE LossFromPairs(Tail(pairs), DictSet(d, Head(pairs)[1], Head(pairs)[2]))

model_from_json(text) ==
  compile([inputs |-> text.input_config, nodes |-> text.node_config,
           outputs |-> text.output_config, loss |-> EmptyDict,
           optimizer |-> None],
          text.optimizer, LossFromPairs(text.loss, EmptyDict))

\* model.save_weights: what is written to the weight file
WeightBlob(model) ==
  [format |-> "h5", shapes |-> ParamShapes(model.graph), value |-> model.value]

\* whether model.load_weights(blob) succeeds
WeightsFit(model, blob) ==
  /\ DOMAIN blob = {"format", "shapes", "value"}
  /\ blob.format = "h5"
  /\ blob.shapes = ParamShapes(model.graph)

\* model.load_weights(blob)
load_weights(model, blob) == [model EXCEPT !.value = blob.value]

\* the forward pass on the rows of data["input"]: the shared trunk yields
\* value * x for a sample x (one input feature); head k (in the order of the
\* outputs) applies its own offset, so that different heads give different
\* outputs.  A head of width 2 yields two class scores per sample, a head of
\* width 1 one number per sample.
HeadRow(k, width, h) == IF width = 2 THEN <<k, h + 1>> ELSE <<h + k>>

Forward(model, data) ==
  LET g == model.graph
      X == data[InputName]
      n == X.shape[1]
      Out(k) ==
        LET width == NodeWidth(g, g.outputs[k].input)
        IN Matrix([r \in 1 .. n |->
                     HeadRow(k - 1, width, model.value * At2(X, r - 1, 0))],
                  width)
  IN [nm \in {g.outputs[k].name : k \in 1 .. Len(g.outputs)} |->
        Out(CHOOSE k \in 1 .. Len(g.outputs) : g.outputs[k].name = nm)]

-----------------------------------------------------------------------------
(* MultiTaskDNN (deep.py, 56-160). *)

TaskKinds == {"classification", "regression"}

\* the Model Parameters: one input feature, one hidden unit; rates in
\* thousandths
ModelParams ==
  [data_shape |-> <<1>>, nb_hidden |-> 1, init |-> "glorot_uniform",
   activation |-> "linear", dropout |-> 500, learning_rate |-> 10,
   decay |-> 0, momentum |-> 900, nesterov |-> FALSE]

Keys(tt) == DOMAIN tt

\* the loop of lines 77-87
RECURSIVE HeadLoop(_, _, _, _, _)
HeadLoop(model, tt, model_params, sorted_tasks, ind) ==
  IF ind >= Len(sorted_tasks) THEN model
  ELSE LET task == sorted_tasks[ind + 1]
           task_type == tt[task]
           top_layer == <<"dropout">>
           withHead ==
             IF task_type = "classification"
             THEN add_node(model, Dense(2, model_params.init, "softmax"),
                           HeadName(ind), top_layer)
             ELSE IF task_type = "regression"
             THEN add_node(model, Dense(1, model_params.init, "linear"),
                           HeadName(ind), top_layer)
             ELSE model
       IN HeadLoop(add_output(withHead, TaskName(ind), HeadName(ind)),
                   tt, model_params, sorted_tasks, ind + 1)

\* a mutation of the loss selection: mean squared error for every output
LossLoopAllMse(loss_dict, tt, sorted_tasks, ind) ==
  [nm \in DOMAIN loss_dict \cup {TaskName(k) : k \in ind .. Len(sorted_tasks) - 1}
     |-> IF nm \in DOMAIN loss_dict THEN loss_dict[nm] ELSE "mean_squared_error"]

\* the loop of lines 89-95
RECURSIVE LossLoop(_, _, _, _)
LossLoop(loss_dict, tt, sorted_tasks, ind) ==
  IF ind >= Len(sorted_tasks) THEN loss_dict
  ELSE LET task_type == tt[sorted_tasks[ind + 1]]
           taskname == TaskName(ind)
           next == IF task_type = "classification"
                   THEN DictSet(loss_dict, taskname, "binary_crossentropy")
                   ELSE IF task_type = "regression"
                   THEN DictSet(loss_dict, taskname, "mean_squared_error")
                   ELSE loss_dict
       IN LossLoop(next, tt, sorted_tasks, ind + 1)

\* lines 65-101: the raw model __init__ builds
BuildRawModel(tt, model_params) ==
  LET sorted_tasks == sorted(Keys(tt))
      n_inputs == model_params.data_shape[1]
      m0 == add_input(Graph, InputName, n_inputs)
      m1 == add_node(m0, Dense(model_params.nb_hidden, model_params.init,
                               model_params.activation),
                     <<"dense">>, InputName)
      m2 == add_node(m1, Dropout(model_params.dropout), <<"dropout">>, <<"dense">>)
      m3 == HeadLoop(m2, tt, model_params, sorted_tasks, 0)
      loss_dict == LossLoop(EmptyDict, tt, sorted_tasks, 0)
      sgd == SGD(model_params.learning_rate, model_params.decay,
                 model_params.momentum, model_params.nesterov)
  IN compile(m3, sgd, loss_dict)

\* get_data_dict (103-114); y is None or a label matrix
RECURSIVE DataLoop(_, _, _, _, _)
DataLoop(data, tt, sorted_tasks, y, ind) ==
  IF ind >= Len(sorted_tasks) THEN data
  ELSE LET task_type == tt[sorted_tasks[ind + 1]]
           taskname == TaskName(ind)
           next == IF y # None
                   THEN IF task_type = "classification"
                        THEN DictSet(data, taskname, to_one_hot(Column(y, ind)))
                        ELSE IF task_type = "regression"
                        THEN DictSet(data, taskname, Column(y, ind))
                        ELSE data
                   ELSE data
       IN DataLoop(next, tt, sorted_tasks, y, ind + 1)

\* a mutation of get_data_dict: the labels of every task are passed raw
get_data_dictRaw(tt, X, y) ==
  DataLoop(DictSet(EmptyDict, InputName, X),
           [k \in DOMAIN tt |-> "regression"], sorted(Keys(tt)), y, 0)

get_data_dict(tt, X, y) ==
  DataLoop(DictSet(EmptyDict, InputName, X), tt, sorted(Keys(tt)), y, 0)

\* a mutation of the weight packaging: every task gets the first column
WeightLoopFirstColumn(sample_weight, w, count, ind) ==
  [nm \in DOMAIN sample_weight \cup {TaskName(k) : k \in ind .. count - 1}
     |-> IF nm \in DOMAIN sample_weight THEN sample_weight[nm] ELSE Column(w, 0)]

\* get_sample_weight (116-121)
RECURSIVE WeightLoop(_, _, _, _)
WeightLoop(sample_weight, w, count, ind) ==
  IF ind >= count THEN sample_weight
  ELSE WeightLoop(DictSet(sample_weight, TaskName(ind), Column(w, ind)),
                  w, count, ind + 1)

get_sample_weight(tt, w) ==
  WeightLoop(EmptyDict, w, Len(sorted(Keys(tt))), 0)

\* a mutation of fit_on_batch: eps is not added
EpsWeightsNoEps(w) == w

\* the weights fit_on_batch packages (127-129)
EpsWeights(w) == AddScaledOnes(w, EpsMilli)

\* what one task contributes to y_pred (146-157)
PredTask(tt, task, taskname, y_pred_dict) ==
  IF tt[task] = "classification"
  THEN Squeeze(Argmax1(y_pred_dict[taskname]))
  ELSE Squeeze(y_pred_dict[taskname])

\* whether y_pred[:, ind] = v is a legal assignment for nb_samples rows
Assignable(v, nb_samples) == v.shape = <<>> \/ v.shape = <<nb_samples>>

\* the loop of lines 145-158
RECURSIVE PredLoop(_, _, _, _, _)
PredLoop(y_pred, tt, sorted_tasks, y_pred_dict, ind) ==
  IF ind >= Len(sorted_tasks) THEN y_pred
  ELSE LET y_pred_task == PredTask(tt, sorted_tasks[ind + 1], TaskName(ind),
                                   y_pred_dict)
       IN PredLoop(SetColumn(y_pred, ind, y_pred_task), tt, sorted_tasks,
                   y_pred_dict, ind + 1)

\* whether the loop of lines 145-158 raises: an output is missing from the
\* engine's result, or has a shape that cannot be written to a column
PredRaises(tt, y_pred_dict, nb_samples) ==
  LET sorted_tasks == sorted(Keys(tt))
  IN \E ind \in 0 .. Len(sorted_tasks) - 1 :
       \/ TaskName(ind) \notin DOMAIN y_pred_dict
       \/ ~Assignable(PredTask(tt, sorted_tasks[ind + 1], TaskName(ind),
                               y_pred_dict), nb_samples)

\* lines 141-160, given the engine's result
AssemblePrediction(tt, X, y_pred_dict) ==
  LET sorted_tasks == sorted(Keys(tt))
      nb_samples == X.shape[1]
      nb_tasks == Len(sorted_tasks)
      y_pred == PredLoop(Zeros(<<nb_samples, nb_tasks>>), tt, sorted_tasks,
                         y_pred_dict, 0)
  IN Squeeze(y_pred)

-----------------------------------------------------------------------------
(* Paths and file names (deep.py, 27, 33-34, 45-49). *)

LastIndexOf(p, c) ==
  IF \E k \in 1 .. Len(p) : p[k] = c
  THEN CHOOSE k \in 1 .. Len(p) : p[k] = c /\ \A j \in k + 1 .. Len(p) : p[j] # c
  ELSE 0

\* os.path.splitext(p)[0]: the path without the extension of its last
\* component; leading dots of the component are no extension
SplitextRoot(p) ==
  LET sepIndex == LastIndexOf(p, "/")
      dotIndex == LastIndexOf(p, ".")
  IN IF dotIndex > sepIndex
        /\ \E k \in sepIndex + 1 .. dotIndex - 1 : p[k] # "."
     THEN SubSeq(p, 1, dotIndex - 1)
     ELSE p

\* os.path.join(a, b) for a relative b
PathJoin(a, b) ==
  IF a = <<>> \/ a[Len(a)] = "/" THEN a \o b ELSE a \o <<"/">> \o b

\* Model.get_model_filename(out_dir), of the base class: the pkl.gz file of
\* the model directory
get_model_filename(out_dir) ==
  PathJoin(out_dir, <<"m", "o", "d", "e", "l", ".", "p", "k", "l", ".", "g", "z">>)

\* "%s.%s" % (filename, ext)
WithExt(filename, ext) == filename \o <<".">> \o ext

JsonExt == <<"j", "s", "o", "n">>
H5Ext == <<"h", "5">>

\* the file names save derives (27, 33-34)
SaveJsonFilename(out_dir) ==
  WithExt(SplitextRoot(get_model_filename(out_dir)), JsonExt)
SaveH5Filename(out_dir) ==
  WithExt(SplitextRoot(get_model_filename(out_dir)), H5Ext)

\* the file names load derives (45-49)
LoadJsonFilename(model_dir) ==
  WithExt(SplitextRoot(get_model_filename(model_dir)), JsonExt)
LoadH5Filename(model_dir) ==
  WithExt(SplitextRoot(get_model_filename(model_dir)), H5Ext)

\* open(path, "wb").write(content) and the like
WriteFile(files, path, content) == DictSet(files, path, content)
Exists(files, path) == path \in DOMAIN files

-----------------------------------------------------------------------------
(* Inputs. *)

Instances == {1, 2}

TaskIds == {<<"a">>, <<"a", "b">>, <<"b">>}

\* the Task Specifications: nonempty, at most MaxTasks tasks
TaskSpecs ==
  UNION {[K -> TaskKinds] :
           K \in {S \in SUBSET TaskIds : S # {} /\ Cardinality(S) <= MaxTasks}}

\* the Task Specifications over the first ids only
FirstIds(t) == {sorted(TaskIds)[k] : k \in 1 .. t}
PrefixTaskSpecs ==
  UNION {[FirstIds(t) -> TaskKinds] :
           t \in 1 .. (IF MaxTasks < Cardinality(TaskIds) THEN MaxTasks
                       ELSE Cardinality(TaskIds))}

\* label values: the two classes and a value that is neither
YVals == <<0, 1, 2>>
\* weights in thousandths: 0, -0.001 and 1.0
WVals == <<0, 0 - EpsMilli, 1000>>

\* the pool of samples for t tasks: sample s has the feature s % 2, and its
\* labels and weights run through YVals and WVals along the tasks, so that
\* the columns of a batch differ
SampleX(s) == <<s % 2>>
SampleY(s, t) == [i \in 1 .. t |-> YVals[((s + i - 1) % Len(YVals)) + 1]]
SampleW(s, t) == [i \in 1 .. t |-> WVals[((s + i) % Len(WVals)) + 1]]

Seeds == 0 .. 5

\* a batch is a nonempty sequence of at most MaxSamples samples of the pool
BatchSeeds == UNION {[1 .. n -> Seeds] : n \in 1 .. MaxSamples}
BatchX(b) == Matrix([r \in 1 .. Len(b) |-> SampleX(b[r])], 1)
BatchY(b, t) == Matrix([r \in 1 .. Len(b) |-> SampleY(b[r], t)], t)
BatchW(b, t) == Matrix([r \in 1 .. Len(b) |-> SampleW(b[r], t)], t)

\* label vectors for to_one_hot, the empty one included
LabelVectors ==
  UNION {{[shape |-> <<n>>, data |-> d] :
            d \in [1 .. n -> {YVals[k] : k \in 1 .. Len(YVals)}]} :
           n \in 0 .. MaxSamples}

NumTasks == Cardinality(Keys(task_types))

-----------------------------------------------------------------------------
(* The state machine. *)

Init ==
  /\ task_types \in TaskSpecs
  /\ constructed = [i \in Instances |-> FALSE]
  /\ raw_model = [i \in Instances |-> None]
  /\ fs = EmptyDict
  /\ call = [op |-> "none"]

InitPersist ==
  /\ task_types \in PrefixTaskSpecs
  /\ constructed = [i \in Instances |-> FALSE]
  /\ raw_model = [i \in Instances |-> None]
  /\ fs = EmptyDict
  /\ call = [op |-> "none"]

\* MultiTaskDNN.__init__ (60-101).  The base class stores task_types and
\* model_params and leaves raw_model None.
Construct(self, initialize_raw_model) ==
  /\ ~constructed[self]
  /\ constructed' = [constructed EXCEPT ![self] = TRUE]
  /\ raw_model' = [raw_model EXCEPT ![self] =
                     IF initialize_raw_model
                     THEN BuildRawModel(task_types, ModelParams)
                     ELSE None]
  /\ call' = [op |-> "init", self |-> self,
              initialize_raw_model |-> initialize_raw_model]
  /\ UNCHANGED <<task_types, fs>>

\* to_one_hot(y) (174-189)
ToOneHot(y) ==
  /\ call' = [op |-> "to_one_hot", y |-> y, y_after |-> y, ret |-> to_one_hot(y)]
  /\ UNCHANGED <<task_types, constructed, raw_model, fs>>

\* self.get_data_dict(X, y) (103-114)
GetDataDict(self, X, y) ==
  /\ constructed[self]
  /\ call' = [op |-> "get_data_dict", self |-> self, X |-> X, y |-> y,
              ret |-> get_data_dict(task_types, X, y)]
  /\ UNCHANGED <<task_types, constructed, raw_model, fs>>

\* self.get_sample_weight(w) (116-121)
GetSampleWeight(self, w) ==
  /\ constructed[self]
  /\ call' = [op |-> "get_sample_weight", self |-> self, w |-> w,
              ret |-> get_sample_weight(task_types, w)]
  /\ UNCHANGED <<task_types, constructed, raw_model, fs>>

\* whether the engine accepts the targets of a training call: every output
\* has a target of the width of its head
TargetsFit(model, data) ==
  LET g == model.graph
  IN \A k \in 1 .. Len(g.outputs) :
       /\ g.outputs[k].name \in DOMAIN data
       /\ LET width == NodeWidth(g, g.outputs[k].input)
              target == data[g.outputs[k].name]
          IN IF width = 1 THEN Len(target.shape) = 1
             ELSE target.shape = <<data[InputName].shape[1], width>>

\* self.fit_on_batch(X, y, w) (123-133).  The engine's training step reports
\* some loss and leaves the model with some parameters.
FitOnBatch(self, X, y, w) ==
  /\ constructed[self]
  /\ LET w_eps == EpsWeights(w)
         data == get_data_dict(task_types, X, y)
         sample_weight == get_sample_weight(task_types, w_eps)
     IN IF raw_model[self] = None \/ ~TargetsFit(raw_model[self], data)
        THEN /\ call' = [op |-> "fit_on_batch", self |-> self, raised |-> TRUE,
                         X |-> X, y |-> y, w |-> w]
             /\ UNCHANGED raw_model
        ELSE \E loss \in LossVals, value \in ParamVals :
               /\ raw_model' = [raw_model EXCEPT ![self].value = value]
               /\ call' = [op |-> "fit_on_batch", self |-> self, raised |-> FALSE,
                           X |-> X, y |-> y, w |-> w,
                           engine_data |-> data,
                           engine_sample_weight |-> sample_weight,
                           engine_loss |-> loss,
                           ret |-> loss]
  /\ UNCHANGED <<task_types, constructed, fs>>

\* self.predict_on_batch(X) (135-160)
PredictOnBatch(self, X) ==
  /\ constructed[self]
  /\ LET data == get_data_dict(task_types, X, None)
     IN IF raw_model[self] = None
        THEN call' = [op |-> "predict_on_batch", self |-> self, raised |-> TRUE,
                      X |-> X]
        ELSE LET y_pred_dict == Forward(raw_model[self], data)
             IN IF PredRaises(task_types, y_pred_dict, X.shape[1])
                THEN call' = [op |-> "predict_on_batch", self |-> self,
                              raised |-> TRUE, X |-> X]
                ELSE call' = [op |-> "predict_on_batch", self |-> self,
                              raised |-> FALSE, X |-> X,
                              engine_data |-> data,
                              engine_out |-> y_pred_dict,
                              ret |-> AssemblePrediction(task_types, X, y_pred_dict)]
  /\ UNCHANGED <<task_types, constructed, raw_model, fs>>

\* the base class's save hook: the pkl.gz file of the model directory is
\* written
BaseSave(files, out_dir) ==
  WriteFile(files, get_model_filename(out_dir),
            [format |-> "pkl", task_types |-> task_types])

\* a file just created or truncated by open(path, "wb")
EmptyFile == [size |-> 0]

\* self.save(out_dir) (21-39).  Without a raw model, model.to_json() (36)
\* raises AttributeError after the base hook has run.  With one, open(...,
\* "wb") (37) creates or truncates the architecture file and
\* file_obj.write(json_string) (38) raises TypeError, json_string being a
\* str: the file stays empty and save_weights (39) is not reached.
Save(self, out_dir) ==
  /\ constructed[self]
  /\ LET saved == BaseSave(fs, out_dir)
         model == raw_model[self]
     IN IF model = None
        THEN /\ fs' = saved
             /\ call' = [op |-> "save", self |-> self, dir |-> out_dir,
                         raised |-> TRUE, error |-> "AttributeError"]
        ELSE /\ fs' = WriteFile(saved, SaveJsonFilename(out_dir), EmptyFile)
             /\ call' = [op |-> "save", self |-> self, dir |-> out_dir,
                         raised |-> TRUE, error |-> "TypeError"]
  /\ UNCHANGED <<task_types, constructed, raw_model>>

\* whether self.load(model_dir) raises (51-53): a file is missing, the text
\* is no architecture, or the weights do not fit the architecture
LoadRaises(files, model_dir) ==
  \/ ~Exists(files, LoadJsonFilename(model_dir))
  \/ ~IsArchitecture(files[LoadJsonFilename(model_dir)])
  \/ ~Exists(files, LoadH5Filename(model_dir))
  \/ ~WeightsFit(model_from_json(files[LoadJsonFilename(model_dir)]),
                 files[LoadH5Filename(model_dir)])

\* the model load installs (51-54)
LoadedModel(files, model_dir) ==
  load_weights(model_from_json(files[LoadJsonFilename(model_dir)]),
               files[LoadH5Filename(model_dir)])

\* a mutation of load: the model is installed as soon as it is rebuilt from
\* the architecture, before its weights are loaded
LoadInstallsEarly(self, model_dir) ==
  /\ constructed[self]
  /\ IF \/ ~Exists(fs, LoadJsonFilename(model_dir))
        \/ ~IsArchitecture(fs[LoadJsonFilename(model_dir)])
     THEN /\ call' = [op |-> "load", self |-> self, dir |-> model_dir,
                      raised |-> TRUE]
          /\ UNCHANGED raw_model
     ELSE IF LoadRaises(fs, model_dir)
     THEN /\ raw_model' = [raw_model EXCEPT ![self] =
                             model_from_json(fs[LoadJsonFilename(model_dir)])]
          /\ call' = [op |-> "load", self |-> self, dir |-> model_dir,
                      raised |-> TRUE]
     ELSE /\ raw_model' = [raw_model EXCEPT ![self] = LoadedModel(fs, model_dir)]
          /\ call' = [op |-> "load", self |-> self, dir |-> model_dir,
                      raised |-> FALSE]
  /\ UNCHANGED <<task_types, constructed, fs>>

\* self.load(model_dir) (41-54)
Load(self, model_dir) ==
  /\ constructed[self]
  /\ IF LoadRaises(fs, model_dir)
     THEN /\ call' = [op |-> "load", self |-> self, dir |-> model_dir,
                      raised |-> TRUE]
          /\ UNCHANGED raw_model
     ELSE /\ raw_model' = [raw_model EXCEPT ![self] = LoadedModel(fs, model_dir)]
          /\ call' = [op |-> "load", self |-> self, dir |-> model_dir,
                      raised |-> FALSE]
  /\ UNCHANGED <<task_types, constructed, fs>>

-----------------------------------------------------------------------------
(* The environment of load: what can happen to the persisted files between *)
(* a save and a load.                                                      *)

Dirs == {<<"r", "u", "n", ".", "1">>}

ArtifactPaths ==
  {SaveJsonFilename(d) : d \in Dirs} \cup {SaveH5Filename(d) : d \in Dirs}

\* a persisted file is removed
RemoveFile(path) ==
  /\ Exists(fs, path)
  /\ fs' = [q \in DOMAIN fs \ {path} |-> fs[q]]
  /\ UNCHANGED <<task_types, constructed, raw_model, call>>

\* the architecture file is cut short (a save that did not complete)
TruncateJson(dir) ==
  /\ Exists(fs, SaveJsonFilename(dir))
  /\ IsArchitecture(fs[SaveJsonFilename(dir)])
  /\ fs' = WriteFile(fs, SaveJsonFilename(dir), [name |-> "Graph"])
  /\ UNCHANGED <<task_types, constructed, raw_model, call>>

\* a complete pair of artifacts is put into the directory by another
\* process: the architecture of a model of the Task Specification and its
\* weights
PlaceArtifacts(dir, value) ==
  /\ LET model == [BuildRawModel(task_types, ModelParams) EXCEPT !.value = value]
     IN fs' = WriteFile(WriteFile(fs, SaveJsonFilename(dir), to_json(model)),
                        SaveH5Filename(dir), WeightBlob(model))
  /\ UNCHANGED <<task_types, constructed, raw_model, call>>

\* the Task Specification with every kind exchanged for the other
Flip(tt) ==
  [k \in DOMAIN tt |->
     IF tt[k] = "classification" THEN "regression" ELSE "classification"]

\* the weight file is replaced by the weights of a model of another
\* architecture
ForeignWeights(dir) ==
  /\ Exists(fs, SaveH5Filename(dir))
  /\ fs' = WriteFile(fs, SaveH5Filename(dir),
                     WeightBlob(BuildRawModel(Flip(task_types), ModelParams)))
  /\ UNCHANGED <<task_types, constructed, raw_model, call>>

-----------------------------------------------------------------------------
(* Specifications. *)

\* The caller takes the result of the call that returned and goes on.
Return ==
  /\ call.op # "none"
  /\ call' = [op |-> "none"]
  /\ UNCHANGED <<task_types, constructed, raw_model, fs>>

Idle == call.op = "none"

\* One wrapper instance and its batch operations.  The wrapper is
\* synchronous: a call starts when the one before it has returned.
Next ==
  \/ Idle /\ \E flag \in BOOLEAN : Construct(1, flag)
  \/ Idle /\ \E y \in LabelVectors : ToOneHot(y)
  \/ Idle /\ \E b \in BatchSeeds : GetDataDict(1, BatchX(b), BatchY(b, NumTasks))
  \/ Idle /\ \E b \in BatchSeeds : GetDataDict(1, BatchX(b), None)
  \/ Idle /\ \E b \in BatchSeeds : GetSampleWeight(1, BatchW(b, NumTasks))
  \/ Idle /\ \E b \in BatchSeeds :
       FitOnBatch(1, BatchX(b), BatchY(b, NumTasks), BatchW(b, NumTasks))
  \/ Idle /\ \E b \in BatchSeeds : PredictOnBatch(1, BatchX(b))
  \/ Return

Spec == Init /\ [][Next]_vars

\* Two wrapper instances, a model directory and its files.  Calls start when
\* the one before has returned; the environment acts between calls.
PersistBatch == <<1>>

NextPersist ==
  \/ Idle /\ \E i \in Instances, flag \in BOOLEAN : Construct(i, flag)
  \/ Idle /\ \E i \in Instances, d \in Dirs : Save(i, d)
  \/ Idle /\ \E i \in Instances, d \in Dirs : Load(i, d)
  \/ Idle /\ \E i \in Instances :
       FitOnBatch(i, BatchX(PersistBatch), BatchY(PersistBatch, NumTasks),
                  BatchW(PersistBatch, NumTasks))
  \/ Idle /\ \E i \in Instances : PredictOnBatch(i, BatchX(PersistBatch))
  \/ Idle /\ \E path \in ArtifactPaths : RemoveFile(path)
  \/ Idle /\ \E d \in Dirs : TruncateJson(d)
  \/ Idle /\ \E d \in Dirs : ForeignWeights(d)
  \/ Idle /\ \E d \in Dirs, value \in ParamVals : PlaceArtifacts(d, value)
  \/ Return

SpecPersist == InitPersist /\ [][NextPersist]_vars

-----------------------------------------------------------------------------
(* Vocabulary of the properties. *)

\* a comes before b in lexicographic order: at the first position where they
\* differ a has the smaller code point, or a ends there
LexBefore(a, b) ==
  \E k \in 1 .. Len(b) :
    /\ \A j \in 1 .. k - 1 : j <= Len(a) /\ a[j] = b[j]
    /\ \/ k = Len(a) + 1
       \/ k <= Len(a) /\ Ord(a[k]) < Ord(b[k])

\* the position of a task in the ascending order of the task identifiers
Index(task) == Cardinality({k \in Keys(task_types) : LexBefore(k, task)})
TaskAt(i) == CHOOSE task \in Keys(task_types) : Index(task) = i
KindAt(i) == task_types[TaskAt(i)]
TaskIndices == 0 .. NumTasks - 1

\* the names task{i} and dense_head{i}, for i < 10
TaskI(i) == <<"task", Digit(i)>>
HeadI(i) == <<"dense_head", Digit(i)>>

\* the value a result of predict_on_batch holds for sample r and task i: the
\* result keeps the row-major order of the [n, t] matrix
PredAt(ret, r, i) == ret.data[r * NumTasks + i + 1]

Returned(op) == call.op = op /\ ~call.raised

\* C1: the index of a task is its position in the ascending lexicographic
\* order of the task identifiers, and construction (head, output, loss),
\* get_data_dict (label column), get_sample_weight (weight column) and
\* predict_on_batch (output column) all use that index.
TaskOrderConsistent ==
  \A task \in Keys(task_types) :
    LET i == Index(task)
        classification == task_types[task] = "classification"
    IN /\ (call.op = "init" /\ call.initialize_raw_model) =>
            LET g == raw_model[call.self].graph
            IN /\ \E k \in 1 .. Len(g.nodes) :
                    /\ g.nodes[k].name = HeadI(i)
                    /\ g.nodes[k].layer.output_dim = IF classification THEN 2 ELSE 1
               /\ \E k \in 1 .. Len(g.outputs) :
                    /\ g.outputs[k].name = TaskI(i)
                    /\ g.outputs[k].input = HeadI(i)
               /\ TaskI(i) \in DOMAIN g.loss
               /\ g.loss[TaskI(i)] = IF classification THEN "binary_crossentropy"
                                     ELSE "mean_squared_error"
       /\ (call.op = "get_data_dict" /\ call.y # None) =>
            /\ TaskI(i) \in DOMAIN call.ret
            /\ call.ret[TaskI(i)] = IF classification
                                    THEN to_one_hot(Column(call.y, i))
                                    ELSE Column(call.y, i)
       /\ call.op = "get_sample_weight" =>
            /\ TaskI(i) \in DOMAIN call.ret
            /\ call.ret[TaskI(i)] = Column(call.w, i)
       /\ Returned("predict_on_batch") =>
            \A r \in 0 .. call.X.shape[1] - 1 :
              PredAt(call.ret, r, i) =
                IF classification THEN ArgmaxRow(call.engine_out[TaskI(i)], r)
                ELSE At2(call.engine_out[TaskI(i)], r, 0)

\* C1 witness: a prediction has returned for two tasks of different kinds
\* whose identifiers are "ab" and "b"
TaskOrderWitness ==
  /\ Returned("predict_on_batch")
  /\ Keys(task_types) = {<<"a", "b">>, <<"b">>}
  /\ task_types[<<"a", "b">>] = "regression"
  /\ task_types[<<"b">>] = "classification"
  /\ call.X.shape[1] = 2
  /\ PredAt(call.ret, 1, 0) # PredAt(call.ret, 1, 1)

\* C2: predict_on_batch returns an array of shape [n, t] when t > 1 and of
\* shape [n] when t = 1, for every n >= 1.
PredictShape ==
  Returned("predict_on_batch") =>
    call.ret.shape = IF NumTasks > 1 THEN <<call.X.shape[1], NumTasks>>
                     ELSE <<call.X.shape[1]>>

\* C4: the sample weights handed to the training call have exactly the keys
\* task{i}; entry task{i} is column i of w with 0.001 added to every element;
\* fit_on_batch returns the loss the engine reported.
WeightsGetEps ==
  Returned("fit_on_batch") =>
    /\ DOMAIN call.engine_sample_weight = {TaskI(i) : i \in TaskIndices}
    /\ \A i \in TaskIndices :
         LET col == call.engine_sample_weight[TaskI(i)]
         IN /\ col.shape = <<call.w.shape[1]>>
            /\ \A r \in 0 .. call.w.shape[1] - 1 :
                 col.data[r + 1] = At2(call.w, r, i) + EpsMilli
    /\ call.ret = call.engine_loss

\* C4 witness: a training call on two samples and two tasks has returned a
\* nonzero loss
WeightsGetEpsWitness ==
  /\ Returned("fit_on_batch")
  /\ call.w.shape = <<2, 2>>
  /\ At2(call.w, 0, 0) # At2(call.w, 0, 1)
  /\ call.ret # 0

\* C9 as claimed: for every weight matrix, no entry of the sample weights
\* handed to the training call is exactly zero.
NoZeroWeight ==
  Returned("fit_on_batch") =>
    \A i \in TaskIndices : \A r \in 0 .. call.w.shape[1] - 1 :
      call.engine_sample_weight[TaskI(i)].data[r + 1] # 0

\* C9 amended: an entry of w that is not negative is handed to the training
\* call as a sample weight that is not zero.
NoZeroWeightIfNonNegative ==
  Returned("fit_on_batch") =>
    \A i \in TaskIndices : \A r \in 0 .. call.w.shape[1] - 1 :
      At2(call.w, r, i) >= 0 =>
        call.engine_sample_weight[TaskI(i)].data[r + 1] # 0

\* C9 witness: a training call has returned whose weight matrix holds a zero
NoZeroWeightWitness ==
  /\ Returned("fit_on_batch")
  /\ \E i \in TaskIndices : \E r \in 0 .. call.w.shape[1] - 1 :
       At2(call.w, r, i) = 0

\* C5: to_one_hot(y) has shape [n, 2]; row i is [1, 0] iff y[i] = 0, [0, 1]
\* iff y[i] = 1 and [0, 0] for any other label; y is left as it was.
OneHotRows ==
  call.op = "to_one_hot" =>
    LET n == call.y.shape[1]
        Row(r) == <<At2(call.ret, r, 0), At2(call.ret, r, 1)>>
    IN /\ call.ret.shape = <<n, 2>>
       /\ Len(call.ret.data) = 2 * n
       /\ \A r \in 0 .. n - 1 :
            /\ Row(r) = <<1, 0>> <=> call.y.data[r + 1] = 0
            /\ Row(r) = <<0, 1>> <=> call.y.data[r + 1] = 1
            /\ call.y.data[r + 1] \notin {0, 1} => Row(r) = <<0, 0>>
       /\ call.y_after = call.y

\* C5 witness: to_one_hot has returned for a vector that starts with a label
\* that is no class and ends with class 1
OneHotWitness ==
  /\ call.op = "to_one_hot"
  /\ call.y.shape = <<2>>
  /\ call.y.data = <<2, 1>>

\* C6: get_data_dict(X, y) maps "input" to X; with y it holds, besides, one
\* key task{i} per task, with to_one_hot(y[:, i]) for a classification task
\* and y[:, i] for a regression task; without y it holds "input" only.
DataDictContents ==
  call.op = "get_data_dict" =>
    /\ InputName \in DOMAIN call.ret
    /\ call.ret[InputName] = call.X
    /\ IF call.y = None
       THEN DOMAIN call.ret = {InputName}
       ELSE /\ DOMAIN call.ret = {InputName} \cup {TaskI(i) : i \in TaskIndices}
            /\ \A i \in TaskIndices :
                 call.ret[TaskI(i)] =
                   IF KindAt(i) = "classification"
                   THEN to_one_hot(Column(call.y, i))
                   ELSE Column(call.y, i)

\* C6 witness: get_data_dict has returned for labels of a classification
\* and a regression task
DataDictWitness ==
  /\ call.op = "get_data_dict"
  /\ call.y # None
  /\ NumTasks = 2
  /\ KindAt(0) = "classification"
  /\ KindAt(1) = "regression"
  /\ call.y.shape[1] = 2

\* C6 witness of the case without labels
DataDictNoLabels == call.op = "get_data_dict" /\ call.y = None

\* C7: the value predict_on_batch returns for sample r and task i is, for a
\* classification task, the index of the maximum of row r of the engine's
\* output task{i}, the lower index on a tie, and for a regression task the
\* number in row r of that output.
PredictionValues ==
  Returned("predict_on_batch") =>
    \A i \in TaskIndices : \A r \in 0 .. call.X.shape[1] - 1 :
      LET out == call.engine_out[TaskI(i)]
      IN PredAt(call.ret, r, i) =
           IF KindAt(i) = "classification"
           THEN IF At2(out, r, 1) > At2(out, r, 0) THEN 1 ELSE 0
           ELSE At2(out, r, 0)

\* C7 witness: a prediction has returned where the two class scores of a
\* sample tie and those of another sample do not
PredictionWitness ==
  /\ Returned("predict_on_batch")
  /\ call.X.shape[1] = 2
  /\ \E i \in TaskIndices :
       /\ KindAt(i) = "classification"
       /\ LET out == call.engine_out[TaskI(i)]
          IN /\ At2(out, 0, 0) = At2(out, 0, 1)
             /\ At2(out, 1, 1) > At2(out, 1, 0)

\* C8: construction with initialize_raw_model builds, per task, exactly one
\* head dense_head{i} on the dropout node (width 2 with softmax for a
\* classification task, width 1 and linear for a regression task) and
\* exactly one output task{i} on that head; the loss has exactly one entry
\* per output (binary cross-entropy or mean squared error); every output has
\* a head and a loss entry.  Without the flag no raw model is built.
ConstructionBuildsHeads ==
  call.op = "init" =>
    IF ~call.initialize_raw_model THEN raw_model[call.self] = None
    ELSE LET g == raw_model[call.self].graph
             Heads(i) == {k \in 1 .. Len(g.nodes) : g.nodes[k].name = HeadI(i)}
             Outs(i) == {k \in 1 .. Len(g.outputs) : g.outputs[k].name = TaskI(i)}
         IN /\ Len(g.outputs) = NumTasks
            /\ Len(g.nodes) = 2 + NumTasks
            /\ DOMAIN g.loss = {TaskI(i) : i \in TaskIndices}
            /\ \A i \in TaskIndices :
                 /\ Cardinality(Heads(i)) = 1
                 /\ Cardinality(Outs(i)) = 1
                 /\ \A k \in Heads(i) :
                      /\ g.nodes[k].input = <<"dropout">>
                      /\ g.nodes[k].layer.type = "Dense"
                      /\ IF KindAt(i) = "classification"
                         THEN /\ g.nodes[k].layer.output_dim = 2
                              /\ g.nodes[k].layer.activation = "softmax"
                         ELSE /\ g.nodes[k].layer.output_dim = 1
                              /\ g.nodes[k].layer.activation = "linear"
                 /\ \A k \in Outs(i) : g.outputs[k].input = HeadI(i)
                 /\ g.loss[TaskI(i)] = IF KindAt(i) = "classification"
                                       THEN "binary_crossentropy"
                                       ELSE "mean_squared_error"
            /\ \A k \in 1 .. Len(g.outputs) :
                 /\ \E j \in 1 .. Len(g.nodes) : g.nodes[j].name = g.outputs[k].input
                 /\ g.outputs[k].name \in DOMAIN g.loss

\* C8 witness: an instance has been constructed with a raw model for a
\* regression and a classification task
ConstructionWitness ==
  /\ call.op = "init"
  /\ call.initialize_raw_model
  /\ NumTasks = 2
  /\ KindAt(0) = "regression"
  /\ KindAt(1) = "classification"

-----------------------------------------------------------------------------
(* Properties of save and load. *)

\* the files <base>.json and <base>.h5 of a model directory, <base> being
\* the model file name without its last extension
BaseName == <<"/", "m", "o", "d", "e", "l", ".", "p", "k", "l">>
ArtifactJson(dir) == dir \o BaseName \o <<".", "j", "s", "o", "n">>
ArtifactH5(dir) == dir \o BaseName \o <<".", "h", "5">>

\* what predict_on_batch returns for X when the raw model is model
PredictWith(model, X) ==
  AssemblePrediction(task_types, X,
                     Forward(model, get_data_dict(task_types, X, None)))

\* C3: when save(dir) has returned on an instance that holds a raw model,
\* it has not raised and a load(dir) succeeds and yields a raw model of the
\* same architecture and the same weights as the saved one, so that both
\* predict the same on any X; save and load derive the same <base>.json and
\* <base>.h5 from the directory.
RoundTrip ==
  (call.op = "save" /\ raw_model[call.self] # None) =>
    /\ ~call.raised
    /\ ~LoadRaises(fs, call.dir)
    /\ LoadedModel(fs, call.dir).graph = raw_model[call.self].graph
    /\ LoadedModel(fs, call.dir).value = raw_model[call.self].value
    /\ \A b \in BatchSeeds :
         PredictWith(LoadedModel(fs, call.dir), BatchX(b))
           = PredictWith(raw_model[call.self], BatchX(b))
    /\ SaveJsonFilename(call.dir) = ArtifactJson(call.dir)
    /\ SaveH5Filename(call.dir) = ArtifactH5(call.dir)
    /\ LoadJsonFilename(call.dir) = ArtifactJson(call.dir)
    /\ LoadH5Filename(call.dir) = ArtifactH5(call.dir)

\* what save leaves behind for an instance that holds a raw model: the
\* call has raised, the architecture file is empty, and a load of the
\* directory raises
SaveLeavesEmptyJson ==
  (call.op = "save" /\ raw_model[call.self] # None) =>
    /\ call.raised
    /\ fs[ArtifactJson(call.dir)] = EmptyFile
    /\ LoadRaises(fs, call.dir)

\* C10: a load that succeeds installs the model rebuilt from <base>.json
\* with the weights of <base>.h5; a load fails exactly when the architecture
\* file is missing or no architecture, or the weight file is missing or does
\* not fit the architecture, and then leaves every raw model as it was;
\* predict_on_batch and save never change a raw model.
LoadAllOrNothing ==
  [][/\ call'.op = "load" =>
          LET i == call'.self
              jp == ArtifactJson(call'.dir)
              hp == ArtifactH5(call'.dir)
              fails ==
                \/ jp \notin DOMAIN fs
                \/ ~IsArchitecture(fs[jp])
                \/ hp \notin DOMAIN fs
                \/ "shapes" \notin DOMAIN fs[hp]
                \/ fs[hp].shapes # ParamShapes(model_from_json(fs[jp]).graph)
          IN /\ call'.raised <=> fails
             /\ call'.raised => raw_model' = raw_model
             /\ ~call'.raised =>
                  /\ to_json(raw_model'[i]) = fs[jp]
                  /\ raw_model'[i].value = fs[hp].value
                  /\ \A j \in Instances \ {i} : raw_model'[j] = raw_model[j]
     /\ call'.op \in {"save", "predict_on_batch"} => raw_model' = raw_model]_vars

\* C10 witness: a load has failed on an instance that holds a raw model,
\* with the architecture file in place and weights that do not fit it
LoadFailsWitness ==
  /\ call.op = "load" /\ call.raised
  /\ raw_model[call.self] # None
  /\ Exists(fs, ArtifactJson(call.dir))
  /\ IsArchitecture(fs[ArtifactJson(call.dir)])
  /\ Exists(fs, ArtifactH5(call.dir))

\* C10 witness of a load that replaces a raw model by a different one
LoadReplacesWitness ==
  /\ call.op = "load" /\ ~call.raised
  /\ \E j \in Instances \ {call.self} :
       /\ raw_model[j] # None
       /\ raw_model[j].value # raw_model[call.self].value

=============================================================================
